---- MODULE Spec2Model ----
(***************************************************************************)
(* Model of the myshell command interpreter: CommandFactory (tokenizer and *)
(* classifier), the Command variants with the process life cycle of        *)
(* ExternalCommand::execute, and the read loop of main().                  *)
(*                                                                         *)
(* A std::string is a sequence of one-character strings, indexed from 0 in *)
(* the code and from 1 in the sequences: str[i] in C++ is str[i + 1] here. *)
(***************************************************************************)
EXTENDS Integers, Sequences, FiniteSets, TLC

(* ------------------------------ bounds -------------------------------- *)
\* number of process-table slots: fork() fails (EAGAIN) when all are in use
MaxProcs == 3
\* number of lines that standard input delivers in one run
MaxReads == 2
\* longest string handed to the pure functions
MaxStrLen == 4
\* most words of a line handed to the pure functions
MaxWords == 3
\* most commands submitted to one Invoker
MaxSubmit == 4

(* ------------------------- program constants -------------------------- *)
CHILD_CREATION_FAILED ==
    <<"F","a","i","l","e","d"," ","t","o"," ","c","r","e","a","t","e"," ",
      "c","h","i","l","d"," ","p","r","o","c","e","s","s">>
SPACE == <<" ">>
BACKGROUND_PROCESS == <<"&">>
EXIT_COMMAND == <<"e","x","i","t">>
HISTORY_COMMAND == <<"m","y","h","i","s","t","o","r","y">>
ECHO_COMMAND == <<"e","c","h","o">>
SHELL_PATH == <<"/","b","i","n","/","s","h">>
SHELL_FLAG == <<"-","c">>
ERROR_PREFIX == <<"E","r","r","o","r",":"," ">>
PROMPT == <<"m","y","s","h","e","l","l",">"," ">>
NEWLINE == "\n"

(* ----------------------- std::string primitives ----------------------- *)
npos == -1
NUL == "\\0"

Min(a, b) == IF a < b THEN a ELSE b

SetMin(S) == CHOOSE x \in S : \A y \in S : x <= y

\* str.find_first_of(chars, start): first position >= start holding one of chars
FindFirstOf(str, chars, start) ==
    LET hits == {i \in start..(Len(str) - 1) : \E k \in 1..Len(chars) : str[i + 1] = chars[k]}
    IN  IF hits = {} THEN npos ELSE SetMin(hits)

\* str.substr(pos, n)
Substr(str, pos, n) == SubSeq(str, pos + 1, Min(pos + n, Len(str)))

\* str.substr(pos)
SubstrFrom(str, pos) == SubSeq(str, pos + 1, Len(str))

\* str[i] of a const std::string: the terminating NUL at i = length
At(str, i) == IF i < Len(str) THEN str[i + 1] ELSE NUL

\* getenv: <<value>> when the name is set, <<>> for nullptr
getenv(e, name) == IF name \in DOMAIN e THEN <<e[name]>> ELSE <<>>

(* ----------------------- CommandFactory::splitString ------------------ *)
\* (mutant: the test end != start is missing, empty tokens are kept)
RECURSIVE splitLoopKeepEmpty(_, _, _, _)
splitLoopKeepEmpty(str, delimiters, start, tokens) ==
    LET end == FindFirstOf(str, delimiters, start)
    IN  IF end # npos
        THEN splitLoopKeepEmpty(str, delimiters, end + 1,
                                Append(tokens, Substr(str, start, end - start)))
        ELSE IF start # Len(str)
             THEN Append(tokens, SubstrFrom(str, start))
             ELSE tokens

RECURSIVE splitLoop(_, _, _, _)
splitLoop(str, delimiters, start, tokens) ==
    LET end == FindFirstOf(str, delimiters, start)
    IN  IF end # npos
        THEN splitLoop(str, delimiters, end + 1,
                       IF end # start
                       THEN Append(tokens, Substr(str, start, end - start))
                       ELSE tokens)
        ELSE IF start # Len(str)
             THEN Append(tokens, SubstrFrom(str, start))
             ELSE tokens

\* (mutant: the scan starts behind the first character)
splitStringFromOne(str, delimiters) == splitLoop(str, delimiters, Min(1, Len(str)), <<>>)

splitString(str, delimiters) == splitLoop(str, delimiters, 0, <<>>)

(* ----------------------- Command::expandVariables --------------------- *)
\* (mutant: the search for the next "$" or "}" starts behind the character at
\* start)
RECURSIVE expandLoopSearchBehind(_, _, _, _)
expandLoopSearchBehind(str, e, start, result) ==
    LET end == FindFirstOf(str, <<"$", "}">>, start + 1)
    IN  IF end # npos
        THEN IF At(str, start) = "$" /\ end > start + 1
             THEN LET varName  == Substr(str, start + 1, end - start - 1)
                      varValue == getenv(e, varName)
                  IN  expandLoopSearchBehind(str, e, end + 1,
                                 IF varValue # <<>> THEN result \o varValue[1] ELSE result)
             ELSE IF At(str, start) = "{" /\ end > start + 1 /\ At(str, end - 1) = "$"
             THEN LET varName  == Substr(str, start + 2, end - start - 2)
                      varValue == getenv(e, varName)
                  IN  expandLoopSearchBehind(str, e, end + 1,
                                 IF varValue # <<>> THEN result \o varValue[1] ELSE result)
             ELSE expandLoopSearchBehind(str, e, end + 1,
                             result \o Substr(str, start, end - start + 1))
        ELSE IF start # Len(str)
             THEN result \o SubstrFrom(str, start)
             ELSE result

RECURSIVE expandLoop(_, _, _, _)
expandLoop(str, e, start, result) ==
    LET end == FindFirstOf(str, <<"$", "}">>, start)
    IN  IF end # npos
        THEN IF At(str, start) = "$" /\ end > start + 1
             THEN LET varName  == Substr(str, start + 1, end - start - 1)
                      varValue == getenv(e, varName)
                  IN  expandLoop(str, e, end + 1,
                                 IF varValue # <<>> THEN result \o varValue[1] ELSE result)
             ELSE IF At(str, start) = "{" /\ end > start + 1 /\ At(str, end - 1) = "$"
             THEN LET varName  == Substr(str, start + 2, end - start - 2)
                      varValue == getenv(e, varName)
                  IN  expandLoop(str, e, end + 1,
                                 IF varValue # <<>> THEN result \o varValue[1] ELSE result)
             ELSE expandLoop(str, e, end + 1,
                             result \o Substr(str, start, end - start + 1))
        ELSE IF start # Len(str)
             THEN result \o SubstrFrom(str, start)
             ELSE result

expandVariables(str, e) == expandLoop(str, e, 0, <<>>)

\* the number of getenv calls the loop of expandVariables makes from start on
RECURSIVE expandGetenvCalls(_, _)
expandGetenvCalls(str, start) ==
    LET end == FindFirstOf(str, <<"$", "}">>, start)
    IN  IF end # npos
        THEN (IF At(str, start) = "$" /\ end > start + 1 THEN 1
              ELSE IF At(str, start) = "{" /\ end > start + 1 /\ At(str, end - 1) = "$" THEN 1
              ELSE 0)
             + expandGetenvCalls(str, end + 1)
        ELSE 0

(* ----------------------- CommandFactory::createCommand ---------------- *)
\* lines 35-40: the trailing background marker
\* (mutant: the marker is looked for at the front of the line)
parseBackgroundFront(tokens) ==
    IF tokens # <<>> /\ tokens[1] = BACKGROUND_PROCESS
    THEN [tokens |-> Tail(tokens), runInBackground |-> TRUE]
    ELSE [tokens |-> tokens, runInBackground |-> FALSE]

parseBackground(tokens) ==
    IF tokens # <<>> /\ tokens[Len(tokens)] = BACKGROUND_PROCESS
    THEN [tokens |-> SubSeq(tokens, 1, Len(tokens) - 1), runInBackground |-> TRUE]
    ELSE [tokens |-> tokens, runInBackground |-> FALSE]

\* (mutant: the built-in names are matched without regard to case)
classifyAnyCase(t0, tokens, runInBackground) ==
    IF t0 \in {EXIT_COMMAND, <<"E","x","i","t">>}
    THEN [kind |-> "Exit", args |-> <<>>, bg |-> FALSE]
    ELSE IF t0 = HISTORY_COMMAND THEN [kind |-> "History", args |-> <<>>, bg |-> FALSE]
    ELSE IF t0 \in {ECHO_COMMAND, <<"E","c","h","o">>}
    THEN [kind |-> "Echo", args |-> tokens, bg |-> FALSE]
    ELSE [kind |-> "External", args |-> tokens, bg |-> runInBackground]

\* lines 42-53: the variant chosen from the value t0 that tokens[0] yields
classify(t0, tokens, runInBackground) ==
    IF t0 = EXIT_COMMAND THEN [kind |-> "Exit", args |-> <<>>, bg |-> FALSE]
    ELSE IF t0 = HISTORY_COMMAND THEN [kind |-> "History", args |-> <<>>, bg |-> FALSE]
    ELSE IF t0 = ECHO_COMMAND THEN [kind |-> "Echo", args |-> tokens, bg |-> FALSE]
    ELSE [kind |-> "External", args |-> tokens, bg |-> runInBackground]

\* tokens[0] of a std::vector: defined only when the vector is not empty
IndexUndefined(input) == parseBackground(splitString(input, SPACE)).tokens = <<>>

\* what a read of tokens[0] outside the vector can deliver when it does not
\* fault: the string that pop_back destroyed, still in the vector's storage
UBTokens == {BACKGROUND_PROCESS}

createCommand(input) ==
    LET pb == parseBackground(splitString(input, SPACE))
    IN  classify(pb.tokens[1], pb.tokens, pb.runInBackground)

createCommandUB(input, t0) ==
    LET pb == parseBackground(splitString(input, SPACE))
    IN  classify(t0, pb.tokens, pb.runInBackground)

(* ----------------------- output of the built-ins ----------------------- *)
Digit(d) == <<"0","1","2","3","4","5","6","7","8","9">>[d + 1]

\* operator<<(int): the decimal digits
RECURSIVE Decimal(_)
Decimal(n) == IF n < 10 THEN <<Digit(n)>> ELSE Decimal(n \div 10) \o <<Digit(n % 10)>>

\* EchoCommand::execute: the loop from index i (0-based) to args.size()
RECURSIVE echoLoop(_, _, _)
echoLoop(args, e, i) ==
    IF i < Len(args)
    THEN expandVariables(args[i + 1], e) \o <<" ">> \o echoLoop(args, e, i + 1)
    ELSE <<NEWLINE>>

\* (mutant: the loop starts at the command name)
EchoOutputFromName(args, e) == echoLoop(args, e, 0)

EchoOutput(args, e) == echoLoop(args, e, 1)

\* HistoryCommand::execute: the getline loop over the lines of the file
\* (mutant: the numbering starts at 0)
RECURSIVE historyLoopFromZero(_, _)
historyLoopFromZero(lines, count) ==
    IF count <= Len(lines)
    THEN Decimal(count - 1) \o <<".", " ">> \o lines[count] \o <<NEWLINE>>
         \o historyLoopFromZero(lines, count + 1)
    ELSE <<>>

RECURSIVE historyLoop(_, _)
historyLoop(lines, count) ==
    IF count <= Len(lines)
    THEN Decimal(count) \o <<".", " ">> \o lines[count] \o <<NEWLINE>>
         \o historyLoop(lines, count + 1)
    ELSE <<>>

HistoryOutput(lines) == historyLoop(lines, 1)

(* ------------------------------- state -------------------------------- *)
VARIABLES
    env,         \* the environment: variable name -> value
    executable,  \* the programs execvp can run
    logOk,       \* whether history.txt can be opened
    pstate,      \* per process slot: free, shell, prog, zombie, reaped
    pc,          \* per process: position in main() / execute()
    input,       \* per process: the line main() read last
    cmd,         \* per process: the Command createCommand returned
    stack,       \* per process: the active ExternalCommand::execute calls
    exitCode,    \* per process: how it terminated
    history,     \* the lines of history.txt
    nread,       \* lines taken from standard input so far
    envPrinted,  \* the children that took the environment-variable fallback
    last,        \* the step taken last: who, what, and what it wrote
    fin,         \* pure functions: the argument
    fop,         \* pure functions: the function applied
    fout,        \* pure functions: the result
    commandQueue, \* Invoker: the queue of commands, front first
    executed,    \* Invoker: the commands whose execute() was called, in order
    submitted,   \* Invoker: the number of executeCommand calls so far
    ipc          \* Invoker: idle, inside the loop of executeCommand, or exited

procVars == <<pstate, pc, input, cmd, stack, exitCode, history, nread, envPrinted, last>>
worldVars == <<env, executable, logOk>>
fnVars == <<fin, fop, fout>>
invVars == <<commandQueue, executed, submitted, ipc>>
vars == <<env, executable, logOk, pstate, pc, input, cmd, stack, exitCode, history,
          nread, envPrinted, last, fin, fop, fout, commandQueue, executed, submitted, ipc>>

Pids == 1..MaxProcs
RootPid == 1

NoCmd == [kind |-> "None", args |-> <<>>, bg |-> FALSE]
NoStep == [op |-> "Init", p |-> 0, out |-> <<>>, err |-> <<>>]
Step(op, p, out, err) == [op |-> op, p |-> p, out |-> out, err |-> err]

\* the environments and file systems the runs start from
EnvName == <<"H">>
EnvValue == <<"/","r">>
EmptyEnv == [n \in {} |-> <<>>]
HomeEnv == [n \in {EnvName} |-> EnvValue]
Programs == {<<"l","s">>, SHELL_PATH}
Environments == <<HomeEnv, EmptyEnv>>
FileSystems == <<Programs, Programs \ {SHELL_PATH}>>

\* the lines standard input can deliver
InputLines ==
    << <<"l","s">>,
       <<"l","s"," ","&">>,
       <<"H"," ","l","s">>,
       <<"$","H">>,
       <<"e","c","h","o"," ","$","H">>,
       HISTORY_COMMAND,
       EXIT_COMMAND,
       <<>>,
       <<"&">> >>

Lines == {InputLines[i] : i \in 1..Len(InputLines)}

Top(p) == stack[p][Len(stack[p])]
SetTop(stk, f) == [stk EXCEPT ![Len(stk)] = f]
\* one active call of ExternalCommand::execute: its members, the branch of the
\* fork it is in, the pid fork returned, and the number of processes created
\* so far on behalf of the input line the call belongs to
Frame(args, bg, created) ==
    [args |-> args, bg |-> bg, role |-> "caller", child |-> 0, created |-> created]

Running(p) == pstate[p] = "shell"
FreePids == {q \in Pids : pstate[q] = "free"}

ProcInit ==
    /\ pstate = [q \in Pids |-> IF q = RootPid THEN "shell" ELSE "free"]
    /\ pc = [q \in Pids |-> IF q = RootPid THEN "read" ELSE "-"]
    /\ input = [q \in Pids |-> <<>>]
    /\ cmd = [q \in Pids |-> NoCmd]
    /\ stack = [q \in Pids |-> <<>>]
    /\ exitCode = [q \in Pids |-> "none"]
    /\ history = <<>>
    /\ nread = 0
    /\ envPrinted = {}
    /\ last = NoStep

WorldInit ==
    /\ \E i \in 1..Len(Environments) : env = Environments[i]
    /\ \E i \in 1..Len(FileSystems) : executable = FileSystems[i]
    /\ logOk \in BOOLEAN

FnIdle == fin = <<>> /\ fop = "none" /\ fout = <<>>

\* a freshly constructed Invoker: std::queue starts empty
InvokerInit == commandQueue = <<>> /\ executed = <<>> /\ submitted = 0 /\ ipc = "idle"

Init == WorldInit /\ ProcInit /\ FnIdle /\ InvokerInit

(* ------------------------------- main() ------------------------------- *)
\* main.cpp 431-435: the prompt and std::getline
ReadLine(p, line) ==
    /\ Running(p) /\ pc[p] = "read"
    /\ nread < MaxReads
    /\ input' = [input EXCEPT ![p] = line]
    /\ pc' = [pc EXCEPT ![p] = "create"]
    /\ nread' = nread + 1
    /\ last' = Step("ReadLine", p, PROMPT, <<>>)
    /\ UNCHANGED <<pstate, cmd, stack, exitCode, history, envPrinted, worldVars, fnVars, invVars>>

\* main.cpp 438: createCommand on a line that leaves a token 0
CreateCommand(p) ==
    /\ Running(p) /\ pc[p] = "create"
    /\ ~IndexUndefined(input[p])
    /\ cmd' = [cmd EXCEPT ![p] = createCommand(input[p])]
    /\ pc' = [pc EXCEPT ![p] = "execute"]
    /\ last' = Step("CreateCommand", p, <<>>, <<>>)
    /\ UNCHANGED <<pstate, input, stack, exitCode, history, nread, envPrinted, worldVars, fnVars, invVars>>

\* createCommand indexing tokens[0] of an empty vector: the read faults
CreateCommandFault(p) ==
    /\ Running(p) /\ pc[p] = "create"
    /\ IndexUndefined(input[p])
    /\ pstate' = [pstate EXCEPT ![p] = "zombie"]
    /\ exitCode' = [exitCode EXCEPT ![p] = "SIGSEGV"]
    /\ pc' = [pc EXCEPT ![p] = "-"]
    /\ last' = Step("CreateCommandFault", p, <<>>, <<>>)
    /\ input' = [input EXCEPT ![p] = <<>>]
    /\ cmd' = [cmd EXCEPT ![p] = NoCmd]
    /\ stack' = [stack EXCEPT ![p] = <<>>]
    /\ UNCHANGED <<history, nread, envPrinted, worldVars, fnVars, invVars>>

\* createCommand indexing tokens[0] of an empty vector: the read delivers t0
CreateCommandStale(p, t0) ==
    /\ Running(p) /\ pc[p] = "create"
    /\ IndexUndefined(input[p])
    /\ cmd' = [cmd EXCEPT ![p] = createCommandUB(input[p], t0)]
    /\ pc' = [pc EXCEPT ![p] = "execute"]
    /\ last' = Step("CreateCommandStale", p, <<>>, <<>>)
    /\ UNCHANGED <<pstate, input, stack, exitCode, history, nread, envPrinted, worldVars, fnVars, invVars>>

\* main.cpp 444: execute() has returned, the line goes to the history file
Return(p) ==
    /\ Running(p) /\ pc[p] = "return"
    /\ stack' = [stack EXCEPT ![p] = <<>>]
    /\ history' = IF logOk THEN Append(history, input[p]) ELSE history
    /\ input' = [input EXCEPT ![p] = <<>>]
    /\ cmd' = [cmd EXCEPT ![p] = NoCmd]
    /\ pc' = [pc EXCEPT ![p] = "read"]
    /\ last' = Step("Return", p, <<>>, <<>>)
    /\ UNCHANGED <<pstate, exitCode, nread, envPrinted, worldVars, fnVars, invVars>>

(* ----------------------------- built-ins ------------------------------ *)
\* ExitCommand::execute
ExecuteExit(p) ==
    /\ Running(p) /\ pc[p] = "execute" /\ cmd[p].kind = "Exit"
    /\ pstate' = [pstate EXCEPT ![p] = "zombie"]
    /\ exitCode' = [exitCode EXCEPT ![p] = "0"]
    /\ pc' = [pc EXCEPT ![p] = "-"]
    /\ last' = Step("ExecuteExit", p, <<>>, <<>>)
    /\ input' = [input EXCEPT ![p] = <<>>]
    /\ cmd' = [cmd EXCEPT ![p] = NoCmd]
    /\ stack' = [stack EXCEPT ![p] = <<>>]
    /\ UNCHANGED <<history, nread, envPrinted, worldVars, fnVars, invVars>>

\* HistoryCommand::execute
ExecuteHistory(p) ==
    /\ Running(p) /\ pc[p] = "execute" /\ cmd[p].kind = "History"
    /\ pc' = [pc EXCEPT ![p] = "return"]
    /\ last' = Step("ExecuteHistory", p,
                    HistoryOutput(IF logOk THEN history ELSE <<>>), <<>>)
    /\ UNCHANGED <<pstate, input, cmd, stack, exitCode, history, nread, envPrinted, worldVars, fnVars, invVars>>

\* EchoCommand::execute
ExecuteEcho(p) ==
    /\ Running(p) /\ pc[p] = "execute" /\ cmd[p].kind = "Echo"
    /\ pc' = [pc EXCEPT ![p] = "return"]
    /\ last' = Step("ExecuteEcho", p, EchoOutput(cmd[p].args, env), <<>>)
    /\ UNCHANGED <<pstate, input, cmd, stack, exitCode, history, nread, envPrinted, worldVars, fnVars, invVars>>

(* ---------------------- ExternalCommand::execute ----------------------- *)
\* Command.h 76-82: the call is entered and argv is marshalled
ExecuteExternal(p) ==
    /\ Running(p) /\ pc[p] = "execute" /\ cmd[p].kind = "External"
    /\ stack' = [stack EXCEPT ![p] = Append(@, Frame(cmd[p].args, cmd[p].bg, 0))]
    /\ pc' = [pc EXCEPT ![p] = "fork"]
    /\ last' = Step("ExecuteExternal", p, <<>>, <<>>)
    /\ UNCHANGED <<pstate, input, cmd, exitCode, history, nread, envPrinted, worldVars, fnVars, invVars>>

\* Command.h 85, 89, 107-113: fork() succeeds; the child is a copy of the
\* caller at the same place, the caller waits or goes on
ForkOk(p) ==
    /\ Running(p) /\ pc[p] = "fork"
    /\ FreePids # {}
    /\ LET c == SetMin(FreePids)
           f == Top(p)
       IN  /\ pstate' = [pstate EXCEPT ![c] = "shell"]
           /\ input' = [input EXCEPT ![c] = input[p]]
           /\ cmd' = [cmd EXCEPT ![c] = cmd[p]]
           /\ stack' = [stack EXCEPT
                          ![c] = SetTop(stack[p], [f EXCEPT !.role = "child",
                                                            !.created = @ + 1]),
                          ![p] = SetTop(stack[p], [f EXCEPT !.role = "parent", !.child = c,
                                                            !.created = @ + 1])]
           /\ pc' = [pc EXCEPT ![c] = "execvp",
                               ![p] = IF f.bg THEN "return" ELSE "wait"]
           /\ last' = Step("ForkOk", p, <<>>, <<>>)
    /\ UNCHANGED <<exitCode, history, nread, envPrinted, worldVars, fnVars, invVars>>

\* (mutant: a failed fork() is tried again instead of being thrown)
ForkFailRetry(p) ==
    /\ Running(p) /\ pc[p] = "fork"
    /\ last' = Step("ForkFail", p, <<>>, <<>>)
    /\ UNCHANGED <<pstate, pc, input, cmd, stack, exitCode, history, nread, envPrinted,
                   worldVars, fnVars, invVars>>

\* Command.h 86-88 and main.cpp 447-449: fork() fails, the exception leaves
\* every active execute() and is reported by the catch of main()
ForkFail(p) ==
    /\ Running(p) /\ pc[p] = "fork"
    /\ stack' = [stack EXCEPT ![p] = <<>>]
    /\ pc' = [pc EXCEPT ![p] = "read"]
    /\ input' = [input EXCEPT ![p] = <<>>]
    /\ cmd' = [cmd EXCEPT ![p] = NoCmd]
    /\ last' = Step("ForkFail", p, <<>>,
                    ERROR_PREFIX \o CHILD_CREATION_FAILED \o <<NEWLINE>>)
    /\ UNCHANGED <<pstate, exitCode, history, nread, envPrinted, worldVars, fnVars, invVars>>

\* what execvp does with argv[0]
ExecFails(args) == IF args = <<>> THEN TRUE ELSE args[1] \notin executable

\* what a read of args[0] yields: the first argument, or anything when the
\* vector is empty
Arg0(args) == IF args = <<>> THEN UBTokens ELSE {args[1]}

\* Command.h 91: execvp replaces the image of the child
ExecvpOk(p) ==
    /\ Running(p) /\ pc[p] = "execvp"
    /\ ~ExecFails(Top(p).args)
    /\ pstate' = [pstate EXCEPT ![p] = "prog"]
    /\ stack' = [stack EXCEPT ![p] = <<>>]
    /\ pc' = [pc EXCEPT ![p] = "-"]
    /\ input' = [input EXCEPT ![p] = <<>>]
    /\ cmd' = [cmd EXCEPT ![p] = NoCmd]
    /\ last' = Step("ExecvpOk", p, <<>>, <<>>)
    /\ UNCHANGED <<exitCode, history, nread, envPrinted, worldVars, fnVars, invVars>>

\* Command.h 91-93 with an empty args: the null argv[0] or args[0] faults
ExecvpFault(p) ==
    /\ Running(p) /\ pc[p] = "execvp"
    /\ Top(p).args = <<>>
    /\ pstate' = [pstate EXCEPT ![p] = "zombie"]
    /\ exitCode' = [exitCode EXCEPT ![p] = "SIGSEGV"]
    /\ pc' = [pc EXCEPT ![p] = "-"]
    /\ last' = Step("ExecvpFault", p, <<>>, <<>>)
    /\ input' = [input EXCEPT ![p] = <<>>]
    /\ cmd' = [cmd EXCEPT ![p] = NoCmd]
    /\ stack' = [stack EXCEPT ![p] = <<>>]
    /\ UNCHANGED <<history, nread, envPrinted, worldVars, fnVars, invVars>>

\* Command.h 93-96: execvp failed and getenv(args[0]) finds a variable;
\* the value is printed and the call falls through to its end
EnvFallback(p) ==
    /\ Running(p) /\ pc[p] = "execvp"
    /\ ExecFails(Top(p).args)
    /\ \E a \in Arg0(Top(p).args) :
        /\ getenv(env, a) # <<>>
        /\ last' = Step("EnvFallback", p, getenv(env, a)[1] \o <<NEWLINE>>, <<>>)
    /\ pc' = [pc EXCEPT ![p] = "return"]
    /\ envPrinted' = envPrinted \cup {p}
    /\ UNCHANGED <<pstate, input, cmd, stack, exitCode, history, nread, worldVars, fnVars, invVars>>

\* Command.h 98-102: the argument vector of the delegated command
\* (mutant: the leading $ is kept)
ShellArgsKeepDollar(a) ==
    <<SHELL_PATH, SHELL_FLAG, a>>

ShellArgs(a) ==
    LET command == IF At(a, 0) = "$" THEN SubstrFrom(a, 1) ELSE a
    IN  <<SHELL_PATH, SHELL_FLAG, command>>

\* Command.h 97-103: execvp failed and no variable is named args[0]; a new
\* ExternalCommand is built and its execute() is entered
ShellFallback(p) ==
    /\ Running(p) /\ pc[p] = "execvp"
    /\ ExecFails(Top(p).args)
    /\ \E a \in Arg0(Top(p).args) :
        /\ getenv(env, a) = <<>>
        /\ stack' = [stack EXCEPT ![p] = Append(@, Frame(ShellArgs(a), Top(p).bg, Top(p).created))]
    /\ pc' = [pc EXCEPT ![p] = "fork"]
    /\ last' = Step("ShellFallback", p, <<>>, <<>>)
    /\ UNCHANGED <<pstate, input, cmd, exitCode, history, nread, envPrinted, worldVars, fnVars, invVars>>

\* (mutant: waitpid returns at once, as with WNOHANG, whatever the child does)
WaitChildNoHang(p) ==
    /\ Running(p) /\ pc[p] = "wait"
    /\ pstate' = [pstate EXCEPT ![Top(p).child] =
                     IF @ = "zombie" THEN "reaped" ELSE @]
    /\ pc' = [pc EXCEPT ![p] = "return"]
    /\ last' = Step("WaitChild", p, <<>>, <<>>)
    /\ UNCHANGED <<input, cmd, stack, exitCode, history, nread, envPrinted, worldVars, fnVars, invVars>>

\* Command.h 109-112: waitpid(pid, &status, 0) returns once the child has
\* terminated, and collects it
WaitChild(p) ==
    /\ Running(p) /\ pc[p] = "wait"
    /\ pstate[Top(p).child] = "zombie"
    /\ pstate' = [pstate EXCEPT ![Top(p).child] = "reaped"]
    /\ pc' = [pc EXCEPT ![p] = "return"]
    /\ last' = Step("WaitChild", p, <<>>, <<>>)
    /\ UNCHANGED <<input, cmd, stack, exitCode, history, nread, envPrinted, worldVars, fnVars, invVars>>

\* the program a child became runs to its end
ProgExit(p) ==
    /\ pstate[p] = "prog"
    /\ pstate' = [pstate EXCEPT ![p] = "zombie"]
    /\ exitCode' = [exitCode EXCEPT ![p] = "any"]
    /\ last' = Step("ProgExit", p, <<>>, <<>>)
    /\ UNCHANGED <<pc, input, cmd, stack, history, nread, envPrinted, worldVars, fnVars, invVars>>

(* --------------------------- specification ---------------------------- *)
Next ==
    \/ \E p \in Pids, i \in 1..Len(InputLines) : ReadLine(p, InputLines[i])
    \/ \E p \in Pids : CreateCommand(p)
    \/ \E p \in Pids : CreateCommandFault(p)
    \/ \E p \in Pids, t0 \in UBTokens : CreateCommandStale(p, t0)
    \/ \E p \in Pids : Return(p)
    \/ \E p \in Pids : ExecuteExit(p)
    \/ \E p \in Pids : ExecuteHistory(p)
    \/ \E p \in Pids : ExecuteEcho(p)
    \/ \E p \in Pids : ExecuteExternal(p)
    \/ \E p \in Pids : ForkOk(p)
    \/ \E p \in Pids : ForkFail(p)
    \/ \E p \in Pids : ExecvpOk(p)
    \/ \E p \in Pids : ExecvpFault(p)
    \/ \E p \in Pids : EnvFallback(p)
    \/ \E p \in Pids : ShellFallback(p)
    \/ \E p \in Pids : WaitChild(p)
    \/ \E p \in Pids : ProgExit(p)

Spec == Init /\ [][Next]_vars

(* ------------------- the pure functions on their own ------------------- *)
ExpandAlphabet == {"$", "{", "}", "H", "!"}
SplitAlphabet == {" ", "&", "a"}

Strings(alphabet) == UNION {[1..k -> alphabet] : k \in 0..MaxStrLen}

\* lines made of whole words, one blank between two words
Words ==
    << EXIT_COMMAND, HISTORY_COMMAND, ECHO_COMMAND,
       <<"E","c","h","o">>, <<"e","x","i","t","s">>,
       <<"a">>, <<"b">>, <<"$","H">>, BACKGROUND_PROCESS >>

RECURSIVE JoinWords(_)
JoinWords(ws) ==
    IF Len(ws) = 0 THEN <<>>
    ELSE IF Len(ws) = 1 THEN Words[ws[1]]
    ELSE Words[ws[1]] \o SPACE \o JoinWords(Tail(ws))

WordLines ==
    {JoinWords(ws) : ws \in UNION {[1..k -> 1..Len(Words)] : k \in 1..MaxWords}}

\* the delimiter sets splitString is called with
DelimiterSets == {SPACE, <<" ", "&">>}

FnInputs == Strings(ExpandAlphabet) \cup Strings(SplitAlphabet) \cup WordLines

FnInit ==
    /\ \E i \in 1..Len(Environments) : env = Environments[i]
    /\ executable = Programs
    /\ logOk = TRUE
    /\ ProcInit
    /\ fin \in FnInputs
    /\ fop = "none"
    /\ fout = <<>>
    /\ InvokerInit

\* Command::expandVariables(fin)
ApplyExpand ==
    /\ fop = "none"
    /\ fop' = "expand"
    /\ fout' = expandVariables(fin, env)
    /\ UNCHANGED <<fin, worldVars, procVars, invVars>>

\* CommandFactory::splitString(fin, delimiters)
ApplySplit ==
    /\ fop = "none"
    /\ fop' = "split"
    /\ \E delimiters \in DelimiterSets :
           fout' = [delimiters |-> delimiters, tokens |-> splitString(fin, delimiters)]
    /\ UNCHANGED <<fin, worldVars, procVars, invVars>>

\* EchoCommand(tokens).execute() on the tokens createCommand hands over
ApplyEcho ==
    /\ fop = "none"
    /\ IF IndexUndefined(fin) THEN FALSE ELSE createCommand(fin).kind = "Echo"
    /\ fop' = "echo"
    /\ fout' = [args |-> createCommand(fin).args,
                out |-> EchoOutput(createCommand(fin).args, env)]
    /\ UNCHANGED <<fin, worldVars, procVars, invVars>>

\* CommandFactory::createCommand(fin) when token 0 exists
ApplyCreate ==
    /\ fop = "none"
    /\ ~IndexUndefined(fin)
    /\ fop' = "create"
    /\ fout' = createCommand(fin)
    /\ UNCHANGED <<fin, worldVars, procVars, invVars>>

\* CommandFactory::createCommand(fin) when it does not: the read faults
ApplyCreateFault ==
    /\ fop = "none"
    /\ IndexUndefined(fin)
    /\ fop' = "createFault"
    /\ fout' = <<>>
    /\ UNCHANGED <<fin, worldVars, procVars, invVars>>

\* CommandFactory::createCommand(fin) when it does not: the read delivers t0
ApplyCreateStale ==
    /\ fop = "none"
    /\ IndexUndefined(fin)
    /\ \E t0 \in UBTokens : fout' = createCommandUB(fin, t0)
    /\ fop' = "create"
    /\ UNCHANGED <<fin, worldVars, procVars, invVars>>

FnNext ==
    \/ ApplyExpand
    \/ ApplySplit
    \/ ApplyEcho
    \/ ApplyCreate
    \/ ApplyCreateFault
    \/ ApplyCreateStale

SpecFn == FnInit /\ [][FnNext]_vars

(* ------------------------------ Invoker ------------------------------- *)
\* the variants a caller can hand to executeCommand
CommandKinds == {"Echo", "External", "Exit"}

\* Command.h 144-146: executeCommand is entered and the command is pushed
InvokerSubmit(kind) ==
    /\ ipc = "idle"
    /\ submitted < MaxSubmit
    /\ submitted' = submitted + 1
    /\ commandQueue' = Append(commandQueue, [id |-> submitted + 1, kind |-> kind])
    /\ ipc' = "loop"
    /\ UNCHANGED <<executed, worldVars, procVars, fnVars>>

\* Command.h 149-153: front()->execute() returns, pop(), and the loop test
InvokerExecuteReturn ==
    /\ ipc = "loop"
    /\ commandQueue # <<>>
    /\ Head(commandQueue).kind # "Exit"
    /\ executed' = Append(executed, Head(commandQueue).id)
    /\ commandQueue' = Tail(commandQueue)
    /\ ipc' = IF Tail(commandQueue) = <<>> THEN "idle" ELSE "loop"
    /\ UNCHANGED <<submitted, worldVars, procVars, fnVars>>

\* Command.h 151 with Command.h 84-86: execute() of an ExternalCommand throws
\* when fork fails; the exception leaves executeCommand before pop()
InvokerExecuteThrow ==
    /\ ipc = "loop"
    /\ commandQueue # <<>>
    /\ Head(commandQueue).kind = "External"
    /\ executed' = Append(executed, Head(commandQueue).id)
    /\ ipc' = "idle"
    /\ UNCHANGED <<commandQueue, submitted, worldVars, procVars, fnVars>>

\* Command.h 151 with Command.h 124-126: execute() of an ExitCommand ends the
\* process
InvokerExecuteExit ==
    /\ ipc = "loop"
    /\ commandQueue # <<>>
    /\ Head(commandQueue).kind = "Exit"
    /\ executed' = Append(executed, Head(commandQueue).id)
    /\ ipc' = "exited"
    /\ UNCHANGED <<commandQueue, submitted, worldVars, procVars, fnVars>>

InvokerSpecInit ==
    /\ env = HomeEnv /\ executable = Programs /\ logOk = TRUE
    /\ ProcInit /\ FnIdle /\ InvokerInit

InvokerNext ==
    \/ \E kind \in CommandKinds : InvokerSubmit(kind)
    \/ InvokerExecuteReturn
    \/ InvokerExecuteThrow
    \/ InvokerExecuteExit

SpecInvoker == InvokerSpecInit /\ [][InvokerNext]_vars

(* ============================== claims ================================ *)

(* C1: a parent that is past the fork of a foreground External command has  *)
(* either not returned from execute() (it is in waitpid) or its child has   *)
(* terminated and has been collected; the parent of a background command is *)
(* never in waitpid and has returned whatever its child is doing.           *)
C1_ForegroundWaitsBackgroundReturns ==
    \A p \in Pids :
        (Running(p) /\ stack[p] # <<>> /\ Top(p).role = "parent") =>
            /\ Top(p).bg => pc[p] = "return"
            /\ ~Top(p).bg => pc[p] \in {"wait", "return"}
            /\ (~Top(p).bg /\ pc[p] = "return") => pstate[Top(p).child] = "reaped"

C1_Witness ==
    \E p \in Pids :
        /\ Running(p) /\ stack[p] # <<>> /\ Top(p).role = "parent"
        /\ ~Top(p).bg /\ pc[p] = "return"
        /\ pstate[Top(p).child] = "reaped" /\ exitCode[Top(p).child] = "any"
        /\ last.op = "WaitChild" /\ last.p = p

(* C2: a child that printed the value of the variable in the fallback path  *)
(* takes no further step of the interpreter: it forks nothing, reads no     *)
(* line, creates and executes no command and writes no history entry.       *)
C2_EnvFallbackChildStops ==
    last.p \in envPrinted =>
        last.op \notin {"ForkOk", "ReadLine", "CreateCommand", "CreateCommandFault",
                        "CreateCommandStale", "ExecuteExit", "ExecuteHistory",
                        "ExecuteEcho", "ExecuteExternal", "Return"}

(* C3: while some process waits for a foreground child that has not exited, *)
(* no process reads an input line or starts a command.                      *)
ForegroundChildAlive ==
    \E q \in Pids :
        /\ Running(q) /\ pc[q] = "wait"
        /\ pstate[Top(q).child] \in {"shell", "prog"}

C3_WaitBlocksInterpreter ==
    last.op \in {"ReadLine", "ExecuteExit", "ExecuteHistory", "ExecuteEcho",
                 "ExecuteExternal"}
        => ~ForegroundChildAlive

(* C4: the shell delegation happens at most once per command: no process    *)
(* ever has more than the call of the command and one delegated call        *)
(* active.                                                                  *)
C4_DelegatesAtMostOnce == \A p \in Pids : Len(stack[p]) <= 2

(* C5: on behalf of one External command exactly one process is created,    *)
(* whichever path the child takes after the fork.                           *)
C5_ExactlyOneChildPerCommand ==
    \A p \in Pids : \A i \in 1..Len(stack[p]) :
        /\ stack[p][i].created <= 1
        /\ stack[p][i].role # "caller" => stack[p][i].created = 1

(* C6: when the child of a foreground External command with the single      *)
(* token "$V" fails to execute it and V is set in the environment, the      *)
(* child takes the environment-variable fallback and prints the value of V; *)
(* it does not delegate to the shell.                                       *)
C6_DollarNamePrintsValue ==
    \A p \in Pids :
        (last.p = p /\ last.op \in {"EnvFallback", "ShellFallback"}) =>
            LET f == IF last.op = "ShellFallback"
                     THEN stack[p][Len(stack[p]) - 1]
                     ELSE Top(p)
            IN  (Len(f.args) = 1 /\ ~f.bg /\ At(f.args[1], 0) = "$"
                                 /\ SubstrFrom(f.args[1], 1) \in DOMAIN env) =>
                    /\ last.op = "EnvFallback"
                    /\ last.out = env[SubstrFrom(f.args[1], 1)] \o <<NEWLINE>>

(* C7: expandVariables replaces every reference $NAME and ${NAME} by the    *)
(* value of NAME, by nothing when NAME is unset, and copies the rest.       *)
NameChars == {"H"}

RefValue(e, name) == IF name \in DOMAIN e THEN e[name] ELSE <<>>

\* the first position from i on that holds no name character
RECURSIVE NameEnd(_, _)
NameEnd(str, i) ==
    IF i <= Len(str) /\ str[i] \in NameChars THEN NameEnd(str, i + 1) ELSE i

RECURSIVE RefExpand(_, _, _)
RefExpand(str, e, i) ==
    IF i > Len(str) THEN <<>>
    ELSE IF str[i] = "$" /\ i + 1 <= Len(str) /\ str[i + 1] = "{"
            /\ NameEnd(str, i + 2) > i + 2
            /\ NameEnd(str, i + 2) <= Len(str) /\ str[NameEnd(str, i + 2)] = "}"
         THEN RefValue(e, SubSeq(str, i + 2, NameEnd(str, i + 2) - 1))
              \o RefExpand(str, e, NameEnd(str, i + 2) + 1)
    ELSE IF str[i] = "$" /\ NameEnd(str, i + 1) > i + 1
         THEN RefValue(e, SubSeq(str, i + 1, NameEnd(str, i + 1) - 1))
              \o RefExpand(str, e, NameEnd(str, i + 1))
    ELSE <<str[i]>> \o RefExpand(str, e, i + 1)

C7_ExpandReplacesReferences ==
    fop = "expand" => fout = RefExpand(fin, env, 1)

(* C8: a step in which fork() fails creates no process and ends none, leaves*)
(* every execute() of the process, writes the one line "Error: Failed to    *)
(* create child process" to standard error and puts the process back at the *)
(* read of the next line, without a history entry and without a retry.      *)
C8_ForkFailureReportedOnce ==
    [][last'.op = "ForkFail" =>
          /\ pstate' = pstate
          /\ pstate'[last'.p] = "shell"
          /\ pc[last'.p] = "fork" /\ pc'[last'.p] = "read"
          /\ stack'[last'.p] = <<>>
          /\ last'.err = ERROR_PREFIX \o CHILD_CREATION_FAILED \o <<NEWLINE>>
          /\ Cardinality({i \in 1..Len(last'.err) : last'.err[i] = NEWLINE}) = 1
          /\ last'.out = <<>>
          /\ history' = history]_vars

C8_Witness ==
    /\ last.op = "ForkFail"
    /\ pstate[last.p] = "shell" /\ pc[last.p] = "read"
    /\ last.err = ERROR_PREFIX \o CHILD_CREATION_FAILED \o <<NEWLINE>>
    /\ FreePids = Pids \ {RootPid}

(* C9: createCommand never reads token 0 of an empty token sequence: a line *)
(* without tokens ends in a reported EmptyInput condition with the process  *)
(* back at the read, neither in a fault nor in a command built from a       *)
(* stale token.                                                             *)
C9_EmptyInputReported ==
    /\ last.op \notin {"CreateCommandFault", "CreateCommandStale"}
    /\ \A p \in Pids : (Running(p) /\ pc[p] = "execute") => ~IndexUndefined(input[p])

Token0(line) == parseBackground(splitString(line, SPACE)).tokens[1]

IsDelimiter(ch, delimiters) == \E k \in 1..Len(delimiters) : delimiters[k] = ch

\* the positions where a maximal run starts, in a string
RunStarts(str, delimiters) ==
    {i \in 1..Len(str) :
        /\ ~IsDelimiter(str[i], delimiters)
        /\ (i = 1 \/ IsDelimiter(str[i - 1], delimiters))}

\* the last position of the maximal run that starts at i
RunEnd(str, delimiters, i) ==
    SetMin({j \in i..Len(str) :
               j = Len(str) \/ IsDelimiter(str[j + 1], delimiters)})

\* the k-th smallest element of a set of numbers
Kth(S, k) == CHOOSE x \in S : Cardinality({y \in S : y < x}) = k - 1

C12_TokensAreMaximalRuns ==
    fop = "split" =>
        LET d == fout.delimiters
            starts == RunStarts(fin, d)
        IN  /\ Len(fout.tokens) = Cardinality(starts)
            /\ \A k \in 1..Len(fout.tokens) :
                  /\ fout.tokens[k] # <<>>
                  /\ \A i \in 1..Len(fout.tokens[k]) : ~IsDelimiter(fout.tokens[k][i], d)
                  /\ fout.tokens[k] =
                         SubSeq(fin, Kth(starts, k), RunEnd(fin, d, Kth(starts, k)))
            /\ fin = <<>> => fout.tokens = <<>>

C12_Witness ==
    /\ fop = "split" /\ fout.delimiters = SPACE
    /\ fin = <<" ", "a", " ", " ">>
    /\ fout.tokens = << <<"a">> >>

(* C13: echo writes token 1, token 2, ... in order, each as the expander   *)
(* returns it and each followed by one blank, then one newline and nothing  *)
(* else; token 0 is not written; ["echo","a","b"] gives "a b \n" and the    *)
(* command name alone gives "\n".                                           *)
\* where the text of token k (1-based, k >= 2) starts in the output, less one
RECURSIVE EchoOffset(_, _, _)
EchoOffset(args, e, k) ==
    IF k <= 2 THEN 0
    ELSE EchoOffset(args, e, k - 1) + Len(expandVariables(args[k - 1], e)) + 1

C13_EchoWritesTokensThenNewline ==
    fop = "echo" =>
        LET args == fout.args
            out == fout.out
            n == Len(args)
        IN  /\ Len(out) = EchoOffset(args, env, n + 1) + 1
            /\ out[Len(out)] = NEWLINE
            /\ \A k \in 2..n :
                  LET x == expandVariables(args[k], env)
                      at == EchoOffset(args, env, k)
                  IN  /\ SubSeq(out, at + 1, at + Len(x)) = x
                      /\ out[at + Len(x) + 1] = " "
            /\ args = << <<"e","c","h","o">>, <<"a">>, <<"b">> >>
                  => out = <<"a", " ", "b", " ", "\n">>
            /\ n = 1 => out = <<"\n">>

C13_Witness ==
    /\ fop = "echo"
    /\ fout.args = << <<"e","c","h","o">>, <<"a">>, <<"b">> >>
    /\ fout.out = <<"a", " ", "b", " ", "\n">>

(* C14: a step of myhistory leaves the log as it is, reports nothing, and   *)
(* writes one line per log entry in file order, the k-th being k, ". " and  *)
(* the entry (k from 1); when the log cannot be opened it writes nothing.   *)
\* the log as HistoryCommand can read it
ReadableLog == IF logOk THEN history ELSE <<>>

\* what was written, cut at the newlines
WrittenLines(out) == splitString(out, <<NEWLINE>>)

EndedAsInterpreter(p) == pstate[p] = "zombie" /\ exitCode[p] # "any"

C15_InterpreterEndsOnlyByExit ==
    \A p \in Pids :
        EndedAsInterpreter(p) => (exitCode[p] = "0" /\ pc[p] = "-" /\ stack[p] = <<>>)

(* C16: every command submitted to the Invoker is executed exactly once, in *)
(* submission order, also after a command failed with an exception: the     *)
(* calls of execute() so far are those of commands 1, 2, ... in this order, *)
(* no command twice.                                                        *)
C16_EachCommandExecutedOnce ==
    /\ \A i \in 1..Len(executed) : executed[i] = i
    /\ \A i, j \in 1..Len(executed) : executed[i] = executed[j] => i = j

(* C17: the log receives exactly one entry per input line read, whatever    *)
(* the command does: while the interpreter lives and every interpreter      *)
(* process is between two lines, a log that can be opened holds as many     *)
(* entries as lines were read.                                              *)
BetweenLines == \A p \in Pids : Running(p) => pc[p] = "read"

C17_OneLogEntryPerLine ==
    (logOk /\ Running(RootPid) /\ BetweenLines) => Len(history) = nread

(* C18: right after the shell fallback of a command with a first token, the *)
(* re-invoked command has argv ["/bin/sh", "-c", c], c being the first      *)
(* token without its one leading "$" if it has one, and the background flag *)
(* of the failed command; the words after the first token are not in it.    *)
\* the call of execute() that built the re-invoked command
Below(p) == stack[p][Len(stack[p]) - 1]

WithoutOneDollar(t) == IF t # <<>> /\ t[1] = "$" THEN SubSeq(t, 2, Len(t)) ELSE t

C18_FallbackArgvIsShellDashC ==
    (last.op = "ShellFallback" /\ Below(last.p).args # <<>>) =>
        /\ Top(last.p).args =
               << <<"/","b","i","n","/","s","h">>, <<"-","c">>,
                  WithoutOneDollar(Below(last.p).args[1]) >>
        /\ Top(last.p).bg = Below(last.p).bg
        /\ getenv(env, Below(last.p).args[1]) = <<>>
        /\ Below(last.p).args[1] \notin executable

C18_Witness ==
    /\ last.op = "ShellFallback"
    /\ Below(last.p).args = << <<"H">>, <<"l","s">> >>
    /\ Top(last.p).args = << <<"/","b","i","n","/","s","h">>, <<"-","c">>, <<"H">> >>

(* C19 as stated: every non-empty input line yields at least one token.     *)
C19_NonEmptyLineYieldsToken ==
    (fop = "split" /\ fout.delimiters = SPACE /\ fin # <<>>) => fout.tokens # <<>>

(* C19 amended: an input line yields at least one token exactly when it     *)
(* holds at least one character that is not a delimiter.                    *)
HasWordCharacter(str, delimiters) ==
    \E i \in 1..Len(str) : ~IsDelimiter(str[i], delimiters)

C19_LineWithWordYieldsToken ==
    fop = "split" => (fout.tokens # <<>> <=> HasWordCharacter(fin, fout.delimiters))

C19_Witness ==
    /\ fop = "split" /\ fout.delimiters = SPACE
    /\ fin = <<" ", " ", "a">>
    /\ fout.tokens # <<>>

====
